---- MODULE Spec2Model ----
(***************************************************************************)
(* Road-safety intervention cost estimator (src/app.py, src/main.py).      *)
(*                                                                         *)
(* Text is a sequence of one-character strings.  Real numbers are exact    *)
(* decimals [n |-> mantissa, e |-> number of fractional digits], i.e. the  *)
(* value n / 10^e, kept normalised (no trailing fractional zero), so the   *)
(* quantities and costs of the estimator are modelled without binary       *)
(* rounding.  The coordinates of the GIS map are binary floats of a        *)
(* reduced precision, each operation rounding to the nearest float.        *)
(***************************************************************************)
EXTENDS Integers, Sequences, FiniteSets, TLC

\* Python's None, and a present value; an optional value is one or the other
None == [some |-> FALSE]
Some(x) == [some |-> TRUE, v |-> x]

\* ------------------------------------------------------------------ bounds
MaxFrags == 2
MaxManual == 2
MaxChLen == 4
MaxCh == 3
\* width of the significand of a float
MantissaBits == 3

\* ------------------------------------------------------------ characters
Digits == {"0", "1", "2", "3", "4", "5", "6", "7", "8", "9"}
Whitespace == {" ", "\n", "\t"}
UpperChars == <<"A", "B", "C", "D", "E", "F", "G", "H", "I", "J", "K", "L", "M",
                "N", "O", "P", "Q", "R", "S", "T", "U", "V", "W", "X", "Y", "Z">>
LowerChars == <<"a", "b", "c", "d", "e", "f", "g", "h", "i", "j", "k", "l", "m",
                "n", "o", "p", "q", "r", "s", "t", "u", "v", "w", "x", "y", "z">>

DigitVal(c) ==
    CASE c = "0" -> 0 [] c = "1" -> 1 [] c = "2" -> 2 [] c = "3" -> 3
      [] c = "4" -> 4 [] c = "5" -> 5 [] c = "6" -> 6 [] c = "7" -> 7
      [] c = "8" -> 8 [] c = "9" -> 9

\* str.lower() on one character, then on a text
LowerChar(c) ==
    IF \E i \in 1..26 : UpperChars[i] = c
    THEN LowerChars[CHOOSE i \in 1..26 : UpperChars[i] = c]
    ELSE c

Lower(t) == [i \in 1..Len(t) |-> LowerChar(t[i])]

\* str.upper() is only used for report headings; the model keeps the key.

\* ------------------------------------------------------- text primitives
\* does the literal w occur in t starting at position i
LitAt(t, i, w) ==
    /\ i >= 1
    /\ i + Len(w) - 1 <= Len(t)
    /\ \A k \in 1..Len(w) : t[i + k - 1] = w[k]

\* first position at or after i whose character is not in S (Len(t)+1 if none)
RECURSIVE RunEnd(_, _, _)
RunEnd(t, i, S) ==
    IF i > Len(t) \/ t[i] \notin S THEN i ELSE RunEnd(t, i + 1, S)

Slice(t, i, j) == [k \in 1..(j - i) |-> t[i + k - 1]]

\* `sub in t` of Python
Contains(t, sub) == \E i \in 1..(Len(t) - Len(sub) + 1) : LitAt(t, i, sub)

\* str.find, 1-based; 0 when absent
\* the least position of a set of match positions; 0 when there is none
FirstHit(hits) == IF hits = {} THEN 0 ELSE CHOOSE i \in hits : \A j \in hits : i <= j

Find(t, sub, from) == FirstHit({i \in from..(Len(t) - Len(sub) + 1) : LitAt(t, i, sub)})

\* str.count: non-overlapping occurrences, scanning left to right
\* re.finditer(sub, t) for a literal sub: the start positions of the
\* non-overlapping matches, left to right
RECURSIVE OccurrencesAt(_, _, _)
OccurrencesAt(t, sub, p) ==
    IF p = 0 THEN <<>>
    ELSE <<p>> \o OccurrencesAt(t, sub, Find(t, sub, p + Len(sub)))

Occurrences(t, sub) == OccurrencesAt(t, sub, Find(t, sub, 1))

\* str.count: the number of non-overlapping occurrences
StrCount(t, sub) == Len(Occurrences(t, sub))

\* ----------------------------------------------------------- numbers
RECURSIVE Pow10(_)
Pow10(k) == IF k = 0 THEN 1 ELSE 10 * Pow10(k - 1)

RECURSIVE DecNorm(_)
DecNorm(d) ==
    IF d.n = 0 THEN [n |-> 0, e |-> 0]
    ELSE IF d.e > 0 /\ d.n % 10 = 0 THEN DecNorm([n |-> d.n \div 10, e |-> d.e - 1])
    ELSE d

DecInt(k) == [n |-> k, e |-> 0]
DecMul(a, b) == DecNorm([n |-> a.n * b.n, e |-> a.e + b.e])
DecAdd(a, b) ==
    LET m == IF a.e >= b.e THEN a.e ELSE b.e
    IN  DecNorm([n |-> a.n * Pow10(m - a.e) + b.n * Pow10(m - b.e), e |-> m])
DecDiv1000(a) == DecNorm([n |-> a.n, e |-> a.e + 3])
DecPos(a) == a.n > 0

\* value of a run of decimal digits (int() of a \d+ group)
RECURSIVE DigitsVal(_)
DigitsVal(s) ==
    IF Len(s) = 0 THEN 0
    ELSE 10 * DigitsVal(SubSeq(s, 1, Len(s) - 1)) + DigitVal(s[Len(s)])

NumChars == Digits \cup {"."}

\* float() of a [\d\.]+ group: a ValueError unless the group holds at most one
\* dot and at least one digit ("1.", ".5" parse; ".", "1.2.3" do not)
RECURSIVE StripDots(_)
StripDots(s) ==
    IF Len(s) = 0 THEN <<>>
    ELSE IF s[1] = "." THEN StripDots(Tail(s))
    ELSE <<s[1]>> \o StripDots(Tail(s))

ParseFloat(s) ==
    LET dots == {i \in 1..Len(s) : s[i] = "."}
    IN  IF Cardinality(dots) > 1 \/ Cardinality(dots) = Len(s)
        THEN [ok |-> FALSE, v |-> DecInt(0)]
        ELSE [ok |-> TRUE,
              v  |-> DecNorm([n |-> DigitsVal(StripDots(s)),
                              e |-> IF dots = {} THEN 0
                                    ELSE Len(s) - (CHOOSE i \in dots : TRUE)])]

\* str.strip()
RECURSIVE LStrip(_)
LStrip(s) == IF Len(s) > 0 /\ s[1] \in Whitespace THEN LStrip(Tail(s)) ELSE s
RECURSIVE RStrip(_)
RStrip(s) ==
    IF Len(s) > 0 /\ s[Len(s)] \in Whitespace THEN RStrip(SubSeq(s, 1, Len(s) - 1)) ELSE s
Strip(s) == RStrip(LStrip(s))

RECURSIVE StripUnderscores(_)
StripUnderscores(s) ==
    IF Len(s) = 0 THEN <<>>
    ELSE IF s[1] = "_" THEN StripUnderscores(Tail(s))
    ELSE <<s[1]>> \o StripUnderscores(Tail(s))

\* int() of a str: surrounding whitespace, an optional sign, then digits that
\* may be grouped by single underscores; anything else is a ValueError
IntOfStripped(t) ==
    LET sgn  == Len(t) > 0 /\ t[1] \in {"+", "-"}
        body == IF sgn THEN Tail(t) ELSE t
        good == /\ Len(body) > 0
                /\ body[1] \in Digits
                /\ body[Len(body)] \in Digits
                /\ \A i \in 1..Len(body) : body[i] \in Digits \cup {"_"}
                /\ \A i \in 1..(Len(body) - 1) : ~(body[i] = "_" /\ body[i + 1] = "_")
        mag  == DigitsVal(StripUnderscores(body))
    IN  IF good
        THEN [ok |-> TRUE, v |-> IF sgn /\ t[1] = "-" THEN 0 - mag ELSE mag]
        ELSE [ok |-> FALSE, v |-> 0]

IntParse(s) == IntOfStripped(Strip(s))

\* str.split('+')
RECURSIVE Split(_)
Split(s) ==
    IF ~Contains(s, <<"+">>) THEN <<s>>
    ELSE <<Slice(s, 1, Find(s, <<"+">>, 1))>>
         \o Split(Slice(s, Find(s, <<"+">>, 1) + 1, Len(s) + 1))

\* -------------------------------------------------- helpers for the GIS map
\* app.py 36-39; a bare except turns every failure into None
\* (ch_str is None or Some(text); the result is None or Some(integer))
\* int(parts[0]) * 1000 + int(parts[1]), a and b being the two int() results
KmPlusM(a, b) == IF a.ok /\ b.ok THEN Some(a.v * 1000 + b.v) ELSE None
\* int(parts[0])
BareMetres(a) == IF a.ok THEN Some(a.v) ELSE None

ChainageOfParts(parts) ==
    IF Len(parts) = 2 THEN KmPlusM(IntParse(parts[1]), IntParse(parts[2]))
    ELSE BareMetres(IntParse(parts[1]))

parse_chainage(ch_str) ==
    IF ch_str = None THEN None ELSE ChainageOfParts(Split(ch_str.v))

RECURSIVE Gcd(_, _)
Gcd(a, b) == IF b = 0 THEN a ELSE Gcd(b, a % b)
Abs(x) == IF x < 0 THEN 0 - x ELSE x

\* exact quotient num/den, den # 0, reduced and with a positive denominator
Rat(num, den) ==
    LET g == Gcd(Abs(num), Abs(den))
        s == IF den < 0 THEN 0 - 1 ELSE 1
    IN  [num |-> (s * num) \div g, den |-> (s * den) \div g]
RatLess(a, b) == a.num * b.den < b.num * a.den
RatInt(k) == [num |-> k, den |-> 1]

RatAdd(a, b) == Rat(a.num * b.den + b.num * a.den, a.den * b.den)
RatSub(a, b) == Rat(a.num * b.den - b.num * a.den, a.den * b.den)
RatMul(a, b) == Rat(a.num * b.num, a.den * b.den)

\* Python's float, with a significand of MantissaBits bits (the interpreter's
\* has 53): a float is held as the rational it denotes, and every operation
\* returns the float nearest to the exact result, ties going to the even
\* significand.
RECURSIVE Pow2(_)
Pow2(k) == IF k = 0 THEN 1 ELSE 2 * Pow2(k - 1)

\* x * 2^s as numerator and denominator
Scaled(x, s) ==
    IF s >= 0 THEN [n |-> Abs(x.num) * Pow2(s), d |-> x.den]
    ELSE [n |-> Abs(x.num), d |-> x.den * Pow2(0 - s)]

\* the scale that brings |x| into [2^(MantissaBits-1), 2^MantissaBits),
\* searched from scale s
RECURSIVE ScaleFrom(_, _)
ScaleFrom(x, s) ==
    IF Scaled(x, s).n < Pow2(MantissaBits - 1) * Scaled(x, s).d THEN ScaleFrom(x, s + 1)
    ELSE IF Scaled(x, s).n >= Pow2(MantissaBits) * Scaled(x, s).d THEN ScaleFrom(x, s - 1)
    ELSE s

ScaleOf(x) == ScaleFrom(x, 0)

\* n / d rounded to the nearest integer, halves to the even one
RoundHalfEven(n, d) ==
    IF 2 * (n % d) > d \/ (2 * (n % d) = d /\ (n \div d) % 2 = 1)
    THEN (n \div d) + 1
    ELSE n \div d

Sign(k) == IF k < 0 THEN 0 - 1 ELSE 1

FloatAtScale(x, s) ==
    IF s >= 0
    THEN Rat(Sign(x.num) * RoundHalfEven(Scaled(x, s).n, Scaled(x, s).d), Pow2(s))
    ELSE Rat(Sign(x.num) * RoundHalfEven(Scaled(x, s).n, Scaled(x, s).d) * Pow2(0 - s), 1)

FloatRound(x) == IF x.num = 0 THEN RatInt(0) ELSE FloatAtScale(x, ScaleOf(x))

FloatAdd(a, b) == FloatRound(RatAdd(a, b))
FloatSub(a, b) == FloatRound(RatSub(a, b))
FloatMul(a, b) == FloatRound(RatMul(a, b))
\* int / int: the float nearest to the exact quotient
TrueDiv(a, b) == FloatRound(Rat(a, b))

\* app.py 43-44
Clamp(fraction) ==
    IF RatLess(fraction, RatInt(0)) THEN RatInt(0)
    ELSE IF RatLess(RatInt(1), fraction) THEN RatInt(1)
    ELSE fraction

\* a fraction that takes a degenerate range for a passed one
Fraction_DegenerateAsEnd(chainage_m, start_ch, end_ch) ==
    IF chainage_m = None \/ start_ch = None \/ end_ch = None THEN None
    ELSE IF end_ch.v = start_ch.v THEN RatInt(1)
    ELSE Clamp(TrueDiv(chainage_m.v - start_ch.v, end_ch.v - start_ch.v))

\* app.py 42-44: the clamped fraction; the division raises when the range is
\* degenerate (ZeroDivisionError) or an operand is None (TypeError), and the
\* result is then None.  The three arguments are optional integers.
Fraction(chainage_m, start_ch, end_ch) ==
    IF chainage_m = None \/ start_ch = None \/ end_ch = None THEN None
    ELSE IF end_ch.v = start_ch.v THEN None
    ELSE Clamp(TrueDiv(chainage_m.v - start_ch.v, end_ch.v - start_ch.v))

\* app.py 45, 46: start + (end - start) * fraction, one coordinate
Lerp(s, e, f) == FloatAdd(s, FloatMul(FloatSub(e, s), f))

\* app.py 45-48, fraction being None when line 42 raised; a coordinate pair
\* is a pair of floats
PointAt(fraction, start_gps, end_gps) ==
    IF fraction = None
    THEN start_gps
    ELSE <<Lerp(start_gps[1], end_gps[1], fraction), Lerp(start_gps[2], end_gps[2], fraction)>>

\* app.py 40-48
interpolate_gps(chainage_m, start_ch, end_ch, start_gps, end_gps) ==
    PointAt(Fraction(chainage_m, start_ch, end_ch), start_gps, end_gps)

\* ------------------------------------------------------ regular expressions
\* Each search returns None or Some(record) for the leftmost match, as
\* re.search does.  The character classes of every pattern are disjoint from
\* what follows them, so the greedy match is the only candidate at a start.

\* r'area\s*([\d\.]+)\s*sqm'  (app.py 157, 163; main.py 87): group 1
AreaAt(t, i) ==
    LET a == RunEnd(t, i + 4, Whitespace)
        b == RunEnd(t, a, NumChars)
        c == RunEnd(t, b, Whitespace)
    IN  [ok |-> LitAt(t, i, <<"a", "r", "e", "a">>) /\ b > a /\ LitAt(t, c, <<"s", "q", "m">>),
         g1 |-> Slice(t, a, b)]

AreaGroup(t, p) == IF p = 0 THEN None ELSE Some(AreaAt(t, p).g1)
AreaSearch(t) == AreaGroup(t, FirstHit({i \in 1..Len(t) : AreaAt(t, i).ok}))

\* r'([\d\.]+)\s*mm\s*depth'  (app.py 158; main.py 88): group 1
DepthAt(t, i) ==
    LET b == RunEnd(t, i, NumChars)
        c == RunEnd(t, b, Whitespace)
        d == RunEnd(t, c + 2, Whitespace)
    IN  [ok |-> b > i /\ LitAt(t, c, <<"m", "m">>) /\ LitAt(t, d, <<"d", "e", "p", "t", "h">>),
         g1 |-> Slice(t, i, b)]

DepthGroup(t, p) == IF p = 0 THEN None ELSE Some(DepthAt(t, p).g1)
DepthSearch(t) == DepthGroup(t, FirstHit({i \in 1..Len(t) : DepthAt(t, i).ok}))

\* r'(\d+)\+(\d+)\s+to\s+(\d+)\+(\d+)'  (app.py 147; main.py 101): the four
\* groups as integers
RangeAt(t, i) ==
    LET a == RunEnd(t, i, Digits)
        b == RunEnd(t, a + 1, Digits)
        c == RunEnd(t, b, Whitespace)
        d == RunEnd(t, c + 2, Whitespace)
        e == RunEnd(t, d, Digits)
        f == RunEnd(t, e + 1, Digits)
    IN  [ok |-> /\ a > i /\ LitAt(t, a, <<"+">>) /\ b > a + 1
                /\ c > b /\ LitAt(t, c, <<"t", "o">>) /\ d > c + 2
                /\ e > d /\ LitAt(t, e, <<"+">>) /\ f > e + 1,
         start_km |-> DigitsVal(Slice(t, i, a)),
         start_m  |-> DigitsVal(Slice(t, a + 1, b)),
         end_km   |-> DigitsVal(Slice(t, d, e)),
         end_m    |-> DigitsVal(Slice(t, e + 1, f))]

RangeGroups(t, p) == IF p = 0 THEN None ELSE Some(RangeAt(t, p))
RangeSearch(t) == RangeGroups(t, FirstHit({i \in 1..Len(t) : RangeAt(t, i).ok}))

\* r'(\d+)\s*m'  (app.py 143; main.py 75): group 1
MetresAt(t, i) ==
    LET a == RunEnd(t, i, Digits)
        b == RunEnd(t, a, Whitespace)
    IN  [ok |-> a > i /\ LitAt(t, b, <<"m">>), g1 |-> Slice(t, i, a)]

MetresGroup(t, p) == IF p = 0 THEN None ELSE Some(MetresAt(t, p).g1)
MetresSearch(t) == MetresGroup(t, FirstHit({i \in 1..Len(t) : MetresAt(t, i).ok}))

\* r'(\d+\+\d+)'  (app.py 175): group 1
LabelAt(t, i) ==
    LET a == RunEnd(t, i, Digits)
        b == RunEnd(t, a + 1, Digits)
    IN  [ok |-> a > i /\ LitAt(t, a, <<"+">>) /\ b > a + 1, g1 |-> Slice(t, i, b)]

LabelGroup(t, p) == IF p = 0 THEN None ELSE Some(LabelAt(t, p).g1)
LabelSearch(t) == LabelGroup(t, FirstHit({i \in 1..Len(t) : LabelAt(t, i).ok}))

\* ----------------------------------------------------- the two input tables
\* database.json: an ordered mapping from intervention key to its spec.  A spec
\* holds source_clause and one material list, stored under the category cat.
PerItem == "materials_per_item"
PerMeter == "materials_per_meter"
PerCubicMeter == "materials_per_cubic_meter"
PerSqm20mm == "materials_per_sqm_20mm"

KeyRoadStuds == <<"r", "o", "a", "d", " ", "s", "t", "u", "d", "s">>
KeyPothole == <<"p", "o", "t", "h", "o", "l", "e">>
KeyStreetlights == <<"s", "t", "r", "e", "e", "t", "l", "i", "g", "h", "t", "s">>
KeyLongitudinal == <<"l", "o", "n", "g", "i", "t", "u", "d", "i", "n", "a", "l", " ", "m", "a", "r", "k", "i", "n", "g", "s">>
KeyKerb == <<"k", "e", "r", "b">>

Mat(name, quantity) == [name |-> name, quantity |-> quantity]
SpecEntry(key, clause, cat, materials) ==
    [key |-> key, source_clause |-> clause, cat |-> cat, materials |-> materials]

SpecTableA ==
    << SpecEntry(KeyRoadStuds, "IRC:35", PerMeter, <<Mat("stud", 2), Mat("adhesive", 1)>>),
       SpecEntry(KeyPothole, "IRC:82", PerCubicMeter, <<Mat("bitumen", 3)>>),
       SpecEntry(KeyKerb, "IRC:86", PerItem, <<Mat("mortar", 2), Mat("block", 1)>>) >>

SpecTableB ==
    << SpecEntry(KeyPothole, "IRC:82", PerSqm20mm, <<Mat("bitumen", 3)>>),
       SpecEntry(KeyRoadStuds, "IRC:35", PerItem, <<Mat("stud", 2)>>),
       SpecEntry(KeyKerb, "IRC:86", PerCubicMeter, <<Mat("block", 2), Mat("mortar", 1)>>) >>

SpecTables == {SpecTableA, SpecTableB}

\* prices.json: material name -> price per unit (non-negative)
PricesFull ==
    [m \in {"stud", "adhesive", "bitumen", "block", "mortar"} |->
        CASE m = "stud" -> 5 [] m = "adhesive" -> 1 [] m = "bitumen" -> 4
          [] m = "block" -> 2 [] m = "mortar" -> 3]

\* adhesive and mortar are not priced; bitumen is priced at zero
PricesGaps ==
    [m \in {"stud", "bitumen", "block"} |->
        CASE m = "stud" -> 5 [] m = "bitumen" -> 0 [] m = "block" -> 2]

PriceTables == {PricesFull, PricesGaps}

\* ------------------------------------------------------- the document text
\* app.py 174: the number of characters searched before an occurrence
MapWindow == 150

\* The extracted text of a report is a run of at most MaxFrags fragments.
Fragments ==
    { \* "Pothole area 2.5 sqm "
      <<"P", "o", "t", "h", "o", "l", "e", " ", "a", "r", "e", "a", " ", "2",
        ".", "5", " ", "s", "q", "m", " ">>,
      \* "40 mm depth "
      <<"4", "0", " ", "m", "m", " ", "d", "e", "p", "t", "h", " ">>,
      \* "pothole area 1.2.3 sqm "
      <<"p", "o", "t", "h", "o", "l", "e", " ", "a", "r", "e", "a", " ", "1",
        ".", "2", ".", "3", " ", "s", "q", "m", " ">>,
      \* "road studs "
      <<"r", "o", "a", "d", " ", "s", "t", "u", "d", "s", " ">>,
      \* "4+200 to 4+100 "
      <<"4", "+", "2", "0", "0", " ", "t", "o", " ", "4", "+", "1", "0", "0",
        " ">>,
      \* "road studs 0+0 to 0+10 "
      <<"r", "o", "a", "d", " ", "s", "t", "u", "d", "s", " ", "0", "+", "0",
        " ", "t", "o", " ", "0", "+", "1", "0", " ">>,
      \* "Kerb 4+200 40 mm depth "
      <<"K", "e", "r", "b", " ", "4", "+", "2", "0", "0", " ", "4", "0", " ",
        "m", "m", " ", "d", "e", "p", "t", "h", " ">>,
      \* "Pothole "
      <<"P", "o", "t", "h", "o", "l", "e", " ">>,
      \* "4+200 " and a run of dashes: a label that starts one character
      \* before the window of whatever follows the fragment
      <<"4", "+", "2", "0", "0", " ">> \o [i \in 1..(MapWindow - 5) |-> "-"] }

RECURSIVE TextsOf(_)
TextsOf(k) ==
    IF k = 0 THEN {<<>>}
    ELSE LET shorter == TextsOf(k - 1)
         IN  shorter \cup {t \o f : t \in shorter, f \in Fragments}

Texts == TextsOf(MaxFrags) \ {<<>>}

\* ------------------------------------------------------ quantity extraction
\* An extraction yields [ok, quantity, unit]; ok = FALSE is an exception
\* (float() raising ValueError) leaving the quantity logic.
Qty(q, u) == [ok |-> TRUE, quantity |-> q, unit |-> u]
QtyRaise == [ok |-> FALSE, quantity |-> DecInt(0), unit |-> ""]

StudSpacing == 9
\* math.ceil(a / b) for non-negative integers
CeilDiv(a, b) == (a + b - 1) \div b

\* app.py 150, main.py 104
LengthM(m) == Abs((m.end_km * 1000 + m.end_m) - (m.start_km * 1000 + m.start_m))

\* studs per edge rounded down instead of up
StudsQuantity_Floor(length_m) == (length_m \div StudSpacing) * 2

\* app.py 151, main.py 106-107
StudsQuantity(length_m) == CeilDiv(length_m, StudSpacing) * 2

\* app.py 148-152, main.py 102-119
StudsFromMatch(chainage_match) ==
    IF chainage_match # None
    THEN Qty(DecInt(StudsQuantity(LengthM(chainage_match.v))), "item")
    ELSE Qty(DecInt(1), "item")

\* app.py 145-152
RoadStudsQuantity(text_lower) == StudsFromMatch(RangeSearch(text_lower))

\* app.py 154, main.py 83
AtLeastOne(quantity_found) == IF quantity_found = 0 THEN 1 ELSE quantity_found

\* app.py 153-154, main.py 80-83
PerItemQuantity(key_lower, text_lower) ==
    Qty(DecInt(AtLeastOne(StrCount(text_lower, key_lower))), "item")

\* app.py 160, main.py 90-93; float() of either group may raise
Volume(area_sqm, depth_mm) ==
    IF ~area_sqm.ok \/ ~depth_mm.ok THEN QtyRaise
    ELSE Qty(DecMul(area_sqm.v, DecDiv1000(depth_mm.v)), "m^3")

\* app.py 159-160, main.py 89-95
CubicFromMatches(key_lower, area_match, depth_match) ==
    IF area_match # None /\ depth_match # None /\ key_lower = KeyPothole
    THEN Volume(ParseFloat(area_match.v), ParseFloat(depth_match.v))
    ELSE Qty(DecInt(0), "m^3")

\* app.py 155-160, main.py 84-95
PerCubicMeterQuantity(key_lower, text_lower) ==
    CubicFromMatches(key_lower, AreaSearch(text_lower), DepthSearch(text_lower))

\* app.py 164
AreaQuantity(area_sqm) == IF ~area_sqm.ok THEN QtyRaise ELSE Qty(area_sqm.v, "sqm")

SqmFromMatch(key_lower, area_match) ==
    IF area_match # None /\ key_lower = KeyPothole
    THEN AreaQuantity(ParseFloat(area_match.v))
    ELSE Qty(DecInt(1), "sqm")

\* app.py 161-164
PerSqmQuantity(key_lower, text_lower) == SqmFromMatch(key_lower, AreaSearch(text_lower))

\* app.py 143, main.py 74-76 (float() of a \d+ group cannot raise)
MetresFromMatch(match) ==
    IF match # None THEN Qty(DecInt(DigitsVal(match.v)), "meter")
    ELSE Qty(DecInt(1), "meter")

LongitudinalQuantity(text_lower) == MetresFromMatch(MetresSearch(text_lower))

StreetlightLength == 1000

\* app.py 138-164: the quantity logic of the PDF tab
ExtractApp(key_lower, cat, text_lower) ==
    IF cat = PerMeter
    THEN IF key_lower = KeyLongitudinal THEN LongitudinalQuantity(text_lower)
         ELSE IF key_lower = KeyStreetlights THEN Qty(DecInt(StreetlightLength), "meter")
         ELSE IF key_lower = KeyRoadStuds THEN RoadStudsQuantity(text_lower)
         ELSE Qty(DecInt(1), "meter")
    ELSE IF cat = PerItem THEN PerItemQuantity(key_lower, text_lower)
    ELSE IF cat = PerCubicMeter THEN PerCubicMeterQuantity(key_lower, text_lower)
    ELSE IF cat = PerSqm20mm THEN PerSqmQuantity(key_lower, text_lower)
    ELSE Qty(DecInt(0), "item")

\* main.py 67-95: the category dispatch of the command-line estimator, which
\* has no per-sqm branch
ExtractMainByCategory(key_lower, cat, text_lower) ==
    IF cat = PerMeter
    THEN IF key_lower = KeyLongitudinal THEN LongitudinalQuantity(text_lower)
         ELSE IF key_lower = KeyStreetlights THEN Qty(DecInt(StreetlightLength), "meter")
         ELSE Qty(DecInt(1), "meter")
    ELSE IF cat = PerItem THEN PerItemQuantity(key_lower, text_lower)
    ELSE IF cat = PerCubicMeter THEN PerCubicMeterQuantity(key_lower, text_lower)
    ELSE Qty(DecInt(0), "")

\* main.py 97-119: the road-studs rule follows the dispatch and applies whatever
\* the category is
StudsOverride(key_lower, text_lower, byCategory) ==
    IF ~byCategory.ok THEN byCategory
    ELSE IF key_lower = KeyRoadStuds THEN RoadStudsQuantity(text_lower)
    ELSE byCategory

\* main.py 67-125
ExtractMain(key_lower, cat, text_lower) ==
    StudsOverride(key_lower, text_lower, ExtractMainByCategory(key_lower, cat, text_lower))

\* ---------------------------------------------------------- cost aggregation
\* One line of the text report.  kind is "header", "intervention", "quantity",
\* "clause", "breakdown", "line" (a priced material), "missing" (PRICE NOT
\* FOUND), "total", "summary" or "grand"; unused fields hold "" or zero.
Line(kind, key, name, qty, price, cost) ==
    [kind |-> kind, key |-> key, name |-> name, qty |-> qty, price |-> price, cost |-> cost]
Zero == DecInt(0)
Plain(kind, key) == Line(kind, key, "", Zero, Zero, Zero)

\* app.py 197-200, 357-360; main.py 149-154: a material with a known price
PricedLine(key, mat_name, mat_qty_needed, mat_price_per_unit, acc) ==
    [total |-> DecAdd(acc.total, DecMul(mat_qty_needed, mat_price_per_unit)),
     lines |-> Append(acc.lines,
                      Line("line", key, mat_name, mat_qty_needed, mat_price_per_unit,
                           DecMul(mat_qty_needed, mat_price_per_unit)))]

\* an unpriced material that leaves no line in the report
MissingLine_Silent(key, mat_name, mat_qty_needed, acc) == acc

\* app.py 202, 362; main.py 156-157: PRICE NOT FOUND
MissingLine(key, mat_name, mat_qty_needed, acc) ==
    [total |-> acc.total,
     lines |-> Append(acc.lines, Line("missing", key, mat_name, mat_qty_needed, Zero, Zero))]

\* a material need that leaves out the requirement per unit
QtyNeeded_PerUnitOne(material, quantity_found) == quantity_found

\* app.py 194, 354; main.py 144
QtyNeeded(material, quantity_found) == DecMul(DecInt(material.quantity), quantity_found)

\* app.py 188-202, 352-362; main.py 141-160: one material of the list
MaterialStep(key, material, quantity_found, prices, acc) ==
    IF material.name \in DOMAIN prices
    THEN PricedLine(key, material.name, QtyNeeded(material, quantity_found),
                    DecInt(prices[material.name]), acc)
    ELSE MissingLine(key, material.name, QtyNeeded(material, quantity_found), acc)

\* app.py 180-203, 344-362; main.py 133-160: item_total_cost and the lines
RECURSIVE CostLoop(_, _, _, _, _)
CostLoop(key, materials_list, quantity_found, prices, acc) ==
    IF Len(materials_list) = 0 THEN acc
    ELSE CostLoop(key, Tail(materials_list), quantity_found, prices,
                  MaterialStep(key, Head(materials_list), quantity_found, prices, acc))

ComputeCost(key, materials_list, quantity_found, prices) ==
    CostLoop(key, materials_list, quantity_found, prices, [total |-> Zero, lines |-> <<>>])

\* app.py 181-185, 345-349
MaterialsApp(specs) ==
    IF specs.cat \in {PerItem, PerMeter, PerCubicMeter, PerSqm20mm}
    THEN specs.materials ELSE <<>>

\* main.py 136-138: the per-sqm list is not read
MaterialsMain(specs) ==
    IF specs.cat \in {PerItem, PerMeter, PerCubicMeter} THEN specs.materials ELSE <<>>

\* ------------------------------------------------------------ map annotation
START_CH == parse_chainage(Some(<<"4", "+", "1", "0", "0">>))
END_CH == parse_chainage(Some(<<"3", "6", "2", "+", "5", "0", "0">>))

Max(a, b) == IF a >= b THEN a ELSE b

\* app.py 174: the characters before an occurrence that starts at position p
SearchWindow(full_report_text, p) == Slice(full_report_text, Max(1, p - MapWindow), p)

\* a search that looks before the first occurrence only
FirstLabel_FirstOccurrenceOnly(full_report_text, starts) ==
    IF Len(starts) = 0 THEN None
    ELSE LabelSearch(SearchWindow(full_report_text, Head(starts)))

\* app.py 171-177: the label of the first occurrence whose window holds one
RECURSIVE FirstLabel(_, _)
FirstLabel(full_report_text, starts) ==
    IF Len(starts) = 0 THEN None
    ELSE IF LabelSearch(SearchWindow(full_report_text, Head(starts))) # None
         THEN LabelSearch(SearchWindow(full_report_text, Head(starts)))
         ELSE FirstLabel(full_report_text, Tail(starts))

FindChainage(key_lower, full_report_text, text_lower) ==
    FirstLabel(full_report_text, Occurrences(text_lower, key_lower))

\* app.py 210-212: lat and lon are interpolate_gps at this fraction of the line
\* START_GPS..END_GPS
MapPoint(key, found_ch_str, chainage_m) ==
    IF chainage_m = None \/ chainage_m.v = 0 THEN <<>>
    ELSE << [key |-> key, label |-> found_ch_str.v, chainage_m |-> chainage_m.v,
             fraction |-> Fraction(chainage_m, START_CH, END_CH)] >>

\* app.py 208-212: the map point of a costed intervention, if any
MapPoints(key, found_ch_str) ==
    IF found_ch_str = None THEN <<>>
    ELSE MapPoint(key, found_ch_str, parse_chainage(found_ch_str))

\* -------------------------------------------------------------- batch mode
ResultItem(key, q, specs, item_total_cost) ==
    [Intervention |-> key, Quantity |-> q.quantity, Unit |-> q.unit,
     Source_Clause |-> specs.source_clause, Material_Cost |-> item_total_cost]

\* app.py 206, 366: only a positive item total enters results_list
KeepResult(item_total_cost) == DecPos(item_total_cost)

\* a running total that keeps the last item total only
AddToTotal_KeepingLast(total_project_cost, item_total_cost) == item_total_cost

\* app.py 205, 365; main.py 169
AddToTotal(total_project_cost, item_total_cost) == DecAdd(total_project_cost, item_total_cost)

\* app.py 136, main.py 63: is the intervention found in the text
Matched(intervention_key, text_lower) == Contains(text_lower, Lower(intervention_key))

\* The state a run carries from one intervention to the next.  status becomes
\* "error" when an exception leaves the loop.
RunStart(db) ==
    [status |-> "ok", total |-> Zero, report |-> <<Plain("header", <<>>)>>,
     results |-> <<>>, map |-> <<>>, db |-> db]

\* app.py 166-168, main.py 128-130
QuantityLines(key, q) ==
    << Line("quantity", key, q.unit, q.quantity, Zero, Zero),
       Plain("clause", key), Plain("breakdown", key) >>

\* app.py 204, main.py 167
TotalLine(key, item_total_cost) == Line("total", key, "", Zero, Zero, item_total_cost)

\* app.py 166-212 once quantity, chainage label and cost are known
AppCosted(specs, q, found_ch_str, cost, acc) ==
    [acc EXCEPT
       !.report = acc.report \o <<Plain("intervention", specs.key)>>
                  \o QuantityLines(specs.key, q) \o cost.lines
                  \o <<TotalLine(specs.key, cost.total)>>,
       !.total = AddToTotal(acc.total, cost.total),
       !.results = IF KeepResult(cost.total)
                   THEN Append(acc.results, ResultItem(specs.key, q, specs, cost.total))
                   ELSE acc.results,
       !.map = IF KeepResult(cost.total)
               THEN acc.map \o MapPoints(specs.key, found_ch_str)
               ELSE acc.map]

\* app.py 137-212 for a found intervention, q being the result of the quantity
\* logic; its exception is handled nowhere
AppFound(specs, full_report_text, text_lower, prices, q, acc) ==
    IF ~q.ok THEN [acc EXCEPT !.status = "error"]
    ELSE AppCosted(specs, q,
                   FindChainage(Lower(specs.key), full_report_text, text_lower),
                   ComputeCost(specs.key, MaterialsApp(specs), q.quantity, prices),
                   acc)

\* app.py 134-212: the body of the loop for one (key, spec) of the table
AppIteration(specs_original, full_report_text, text_lower, prices, acc) ==
    IF ~Matched(specs_original.key, text_lower) THEN acc
    ELSE AppFound(specs_original, full_report_text, text_lower, prices,
                  ExtractApp(Lower(specs_original.key), specs_original.cat, text_lower),
                  acc)

RECURSIVE AppLoop(_, _, _, _, _)
AppLoop(db, full_report_text, text_lower, prices, acc) ==
    IF Len(db) = 0 \/ acc.status = "error" THEN acc
    ELSE AppLoop(Tail(db), full_report_text, text_lower, prices,
                 AppIteration(Head(db), full_report_text, text_lower, prices, acc))

\* app.py 214-216, main.py 171-177; not reached after an exception
Summary(acc) ==
    IF acc.status = "error" THEN acc
    ELSE [acc EXCEPT !.report = acc.report \o
             <<Plain("summary", <<>>), Line("grand", <<>>, "", Zero, Zero, acc.total)>>]

\* app.py 119-216: one batch estimation over the whole table
BatchApp(db, full_report_text, prices) ==
    Summary(AppLoop(db, full_report_text, Lower(full_report_text), prices, RunStart(db)))

\* main.py 110-125: the road-studs spec used for costing.  The copy is shallow:
\* the category key moves in the copy only, while the first material's quantity
\* is overwritten in the list the table itself holds.
NormalizeStuds(specs) ==
    IF specs.cat = PerMeter
    THEN [specs EXCEPT !.cat = PerItem, !.materials[1].quantity = 1]
    ELSE specs

\* the entry of the table after that
StudsTableEntry(specs) ==
    IF specs.cat = PerMeter THEN [specs EXCEPT !.materials[1].quantity = 1] ELSE specs

\* main.py 98-125: the spec the cost is computed from
SpecsForCost(specs_original) ==
    IF Lower(specs_original.key) = KeyRoadStuds THEN NormalizeStuds(specs_original)
    ELSE specs_original

TableEntryAfter(specs_original) ==
    IF Lower(specs_original.key) = KeyRoadStuds THEN StudsTableEntry(specs_original)
    ELSE specs_original

\* main.py 127-169 once quantity and cost are known
MainCosted(i, key, q, cost, acc) ==
    [acc EXCEPT
       !.report = acc.report \o <<Plain("intervention", key)>>
                  \o QuantityLines(key, q) \o cost.lines \o <<TotalLine(key, cost.total)>>,
       !.total = AddToTotal(acc.total, cost.total),
       !.db[i] = TableEntryAfter(acc.db[i])]

\* main.py 64-169 for a found intervention; line 65 is written before the
\* quantity logic can raise
MainFound(i, specs_original, prices, q, acc) ==
    IF ~q.ok
    THEN [acc EXCEPT !.status = "error",
                     !.report = Append(acc.report, Plain("intervention", specs_original.key))]
    ELSE MainCosted(i, specs_original.key, q,
                    ComputeCost(specs_original.key, MaterialsMain(SpecsForCost(specs_original)),
                                q.quantity, prices),
                    acc)

\* main.py 60-169: the body of the loop for entry i of the table
MainIteration(i, text_lower, prices, acc) ==
    IF ~Matched(acc.db[i].key, text_lower) THEN acc
    ELSE MainFound(i, acc.db[i], prices,
                   ExtractMain(Lower(acc.db[i].key), acc.db[i].cat, text_lower), acc)

RECURSIVE MainLoop(_, _, _, _)
MainLoop(i, text_lower, prices, acc) ==
    IF i > Len(acc.db) \/ acc.status = "error" THEN acc
    ELSE MainLoop(i + 1, text_lower, prices, MainIteration(i, text_lower, prices, acc))

\* main.py 36-177: one run of the command-line estimator
BatchMain(db, full_report_text, prices) ==
    Summary(MainLoop(1, Lower(full_report_text), prices, RunStart(db)))

\* ------------------------------------------------------------- manual mode
\* app.py 293-296: the unit shown next to the quantity input
DefaultUnit(specs) ==
    IF specs.cat = PerMeter THEN <<"m", "e", "t", "e", "r", "(", "s", ")">>
    ELSE IF specs.cat = PerCubicMeter THEN <<"m", "^", "3">>
    ELSE IF specs.cat = PerSqm20mm THEN <<"s", "q", "m", " ", "(", "a", "t", " ", "2", "0", "m", "m", " ", "d", "e", "p", "t", "h", ")">>
    ELSE <<"i", "t", "e", "m">>

\* default_unit.split('(')[0].strip()  (app.py 302)
BeforeParen(s) == IF Contains(s, <<"(">>) THEN Slice(s, 1, Find(s, <<"(">>, 1)) ELSE s
\* a unit stored as the form shows it
StoredUnit_AsShown(default_unit) == default_unit
StoredUnit(default_unit) == Strip(BeforeParen(default_unit))

\* spec_database[key]
Lookup(db, key) == db[CHOOSE i \in 1..Len(db) : db[i].key = key]

\* app.py 302: the entry a submitted form appends
ManualEntry(selected_item, quantity, specs) ==
    [key |-> selected_item, quantity |-> quantity, unit |-> StoredUnit(DefaultUnit(specs))]

\* app.py 339-367 once the cost of the entry is known
ManualCosted(item, specs, cost, acc) ==
    [acc EXCEPT
       !.report = acc.report \o <<Plain("intervention", item.key)>>
                  \o QuantityLines(item.key, item) \o cost.lines
                  \o <<TotalLine(item.key, cost.total)>>,
       !.total = AddToTotal(acc.total, cost.total),
       !.results = IF KeepResult(cost.total)
                   THEN Append(acc.results, ResultItem(item.key, item, specs, cost.total))
                   ELSE acc.results]

\* a loop body that costs one unit whatever the entry's quantity is
ManualIteration_OneUnit(item, specs, prices, acc) ==
    ManualCosted(item, specs,
                 ComputeCost(item.key, MaterialsApp(specs), DecInt(1), prices), acc)

\* app.py 335-367: the body of the loop for one entry of the list
ManualIteration(item, specs, prices, acc) ==
    ManualCosted(item, specs,
                 ComputeCost(item.key, MaterialsApp(specs), item.quantity, prices), acc)

RECURSIVE ManualLoop(_, _, _, _)
ManualLoop(items, db, prices, acc) ==
    IF Len(items) = 0 THEN acc
    ELSE ManualLoop(Tail(items), db, prices,
                    ManualIteration(Head(items), Lookup(db, Head(items).key), prices, acc))

\* app.py 326-370: one "Calculate Manual Cost"
CalculateManual(items, db, prices) == Summary(ManualLoop(items, db, prices, RunStart(db)))

\* app.py 298: the quantities the number input can be set to (at least 0.01)
ManualQuantities == {[n |-> 1, e |-> 2], DecInt(1), DecInt(2)}

\* ------------------------------------------------------------------ state
VARIABLES
    spec_database,           \* database.json as loaded (main.py rewrites it in memory)
    price_database,          \* prices.json as loaded
    editable_prices,         \* the price inputs of the PDF tab
    manual_editable_prices,  \* the price inputs of the manual tab
    manual_items,            \* st.session_state.manual_items
    full_report_text,        \* the text of the report read, None before a run
    program,                 \* "none", "app" (PDF tab), "main" (main.py), "manual"
    outcome,                 \* "none", "done", "error" (an unhandled exception)
    total_project_cost,
    report_lines,
    results_list,
    map_data,
    call,                    \* the arguments of a helper call, None when there is none
    ret,                     \* what the helper call returned
    database_json,           \* the file database.json
    prices_json,             \* the file prices.json
    errors                   \* the error messages the run has shown

vars == <<spec_database, price_database, editable_prices, manual_editable_prices,
          manual_items, full_report_text, program, outcome, total_project_cost,
          report_lines, results_list, map_data, call, ret,
          database_json, prices_json, errors>>

files == <<database_json, prices_json, errors>>

\* a file that holds the JSON text of a table
Json(value) == [state |-> "json", value |-> value]

\* both files were read without error
FilesRead ==
    /\ database_json = Json(spec_database)
    /\ prices_json = Json(price_database)
    /\ errors = <<>>

tables == <<spec_database, price_database, editable_prices, manual_editable_prices>>

NoOutput ==
    /\ program = "none" /\ outcome = "none" /\ total_project_cost = Zero
    /\ report_lines = <<>> /\ results_list = <<>> /\ map_data = <<>>

\* app.py 21-33, 51, 76-82, 280, 306-312: both tables loaded, the price inputs at
\* their defaults, the manual list empty
Loaded ==
    /\ spec_database \in SpecTables
    /\ price_database \in PriceTables
    /\ editable_prices = price_database
    /\ manual_editable_prices = price_database
    /\ manual_items = <<>>
    /\ full_report_text = None

Init == Loaded /\ FilesRead /\ NoOutput /\ call = None /\ ret = [done |-> FALSE]

\* app.py 218-270: what the PDF tab shows of a run; an exception shows nothing
ShowApp(acc) ==
    IF acc.status = "error"
    THEN /\ outcome' = "error"
         /\ total_project_cost' = Zero
         /\ report_lines' = <<>>
         /\ results_list' = <<>>
         /\ map_data' = <<>>
    ELSE /\ outcome' = "done"
         /\ total_project_cost' = acc.total
         /\ report_lines' = acc.report
         /\ results_list' = acc.results
         /\ map_data' = acc.map

\* app.py 107-270: a report is uploaded to the PDF tab and estimated
TabPdf(text) ==
    /\ program = "none"
    /\ full_report_text' = Some(text)
    /\ program' = "app"
    /\ ShowApp(BatchApp(spec_database, text, editable_prices))
    /\ UNCHANGED <<files, tables, manual_items, call, ret>>

\* main.py 43-180: cost_report.txt as written, complete or cut short by an exception
WriteMain(acc) ==
    /\ outcome' = IF acc.status = "error" THEN "error" ELSE "done"
    /\ total_project_cost' = acc.total
    /\ report_lines' = acc.report
    /\ results_list' = <<>>
    /\ map_data' = <<>>
    /\ spec_database' = acc.db

\* main.py 21-180: the command-line estimator reads the report and estimates it
MainRun(text) ==
    /\ program = "none"
    /\ full_report_text' = Some(text)
    /\ program' = "main"
    /\ WriteMain(BatchMain(spec_database, text, price_database))
    /\ UNCHANGED <<files, price_database, editable_prices, manual_editable_prices,
                   manual_items, call, ret>>

Upload == \E text \in Texts : TabPdf(text)
CommandLine == \E text \in Texts : MainRun(text)

Next == Upload \/ CommandLine

Spec == Init /\ [][Next]_vars

\* ---- the manual tab.  A script run that is not the one of the Calculate
\* button shows no result (app.py 326), so adding and clearing drop the output.
ClearOutput ==
    /\ program' = "none" /\ outcome' = "none" /\ total_project_cost' = Zero
    /\ report_lines' = <<>> /\ results_list' = <<>> /\ map_data' = <<>>

\* a form whose entry goes to the front of the list
ManualAdd_AtFront(selected_item, quantity) ==
    /\ Len(manual_items) < MaxManual
    /\ manual_items' = <<ManualEntry(selected_item, quantity,
                                     Lookup(spec_database, selected_item))>>
                        \o manual_items
    /\ ClearOutput
    /\ UNCHANGED <<files, tables, full_report_text, call, ret>>

\* app.py 289-303: the entry form is submitted
ManualAdd(selected_item, quantity) ==
    /\ Len(manual_items) < MaxManual
    /\ manual_items' = Append(manual_items,
                              ManualEntry(selected_item, quantity,
                                          Lookup(spec_database, selected_item)))
    /\ ClearOutput
    /\ UNCHANGED <<files, tables, full_report_text, call, ret>>

\* app.py 322-324: "Clear List", shown while the list is not empty
ManualClear ==
    /\ manual_items # <<>>
    /\ manual_items' = <<>>
    /\ ClearOutput
    /\ UNCHANGED <<files, tables, full_report_text, call, ret>>

\* app.py 371-378: what the manual tab shows of a calculation
ShowManual(acc) ==
    /\ outcome' = "done"
    /\ total_project_cost' = acc.total
    /\ report_lines' = acc.report
    /\ results_list' = acc.results
    /\ map_data' = <<>>

\* app.py 326-378: "Calculate Manual Cost", shown while the list is not empty
ManualCalculate ==
    /\ manual_items # <<>>
    /\ program' = "manual"
    /\ ShowManual(CalculateManual(manual_items, spec_database, manual_editable_prices))
    /\ UNCHANGED <<files, tables, manual_items, full_report_text, call, ret>>

AddItem ==
    \E i \in 1..Len(spec_database), quantity \in ManualQuantities :
        ManualAdd(spec_database[i].key, quantity)

NextManual == AddItem \/ ManualClear \/ ManualCalculate

SpecManual == Init /\ [][NextManual]_vars

\* ---- a session of the application: the manual tab, its price inputs and
\* the PDF tab, used in any order
SessionTexts == {f \in Fragments : Len(f) < 12}
OverrideNames == {"stud"}
OverrideValues == {9}

\* app.py 306-312: a price input of the manual tab is set; the script reruns
\* and shows no manual result
OverridePrice(item_name, value) ==
    /\ item_name \in DOMAIN manual_editable_prices
    /\ manual_editable_prices[item_name] # value
    /\ manual_editable_prices' = [manual_editable_prices EXCEPT ![item_name] = value]
    /\ ClearOutput
    /\ UNCHANGED <<files, spec_database, price_database, editable_prices, manual_items,
                   full_report_text, call, ret>>

\* app.py 107-270: a report is uploaded to the PDF tab during the session
SessionUpload(text) ==
    /\ full_report_text = None
    /\ full_report_text' = Some(text)
    /\ program' = "app"
    /\ ShowApp(BatchApp(spec_database, text, editable_prices))
    /\ UNCHANGED <<files, tables, manual_items, call, ret>>

SetPrice == \E item_name \in OverrideNames, value \in OverrideValues :
                OverridePrice(item_name, value)
UploadInSession == \E text \in SessionTexts : SessionUpload(text)

NextSession == AddItem \/ ManualClear \/ ManualCalculate \/ SetPrice \/ UploadInSession

SpecSession == Init /\ [][NextSession]_vars

\* ---- a script run from its first line: the two tables are read from their
\* files, which may be absent or may not hold JSON
Missing == [state |-> "missing"]
NotJson == [state |-> "malformed"]
SpecFiles == {Missing, NotJson} \cup {Json(t) : t \in SpecTables}
PriceFiles == {Missing, NotJson} \cup {Json(t) : t \in PriceTables}

\* app.py 23-26, main.py 10-16: database.json is opened and parsed, then
\* prices.json; the first file that is absent or is not JSON ends the reading
FirstFault(db_file, price_file) ==
    IF db_file.state # "json" THEN db_file.state
    ELSE IF price_file.state # "json" THEN price_file.state
    ELSE "none"

\* a loader that falls back to built-in tables when a file cannot be read
load_data_DefaultTables(db_file, price_file) ==
    [spec_db |-> IF db_file.state = "json" THEN db_file.value ELSE SpecTableA,
     price_db |-> IF price_file.state = "json" THEN price_file.value ELSE PricesFull,
     shown |-> IF FirstFault(db_file, price_file) = "none" THEN <<>>
               ELSE <<"ERROR: Database file not found.">>]

\* app.py 21-33: load_data.  It returns (None, None) after an error; None is
\* written here as the empty table, which `not` treats alike (app.py 58)
load_data(db_file, price_file) ==
    IF FirstFault(db_file, price_file) = "missing"
    THEN [spec_db |-> <<>>, price_db |-> <<>>,
          shown |-> <<"ERROR: Database file not found.">>]
    ELSE IF FirstFault(db_file, price_file) = "malformed"
    THEN [spec_db |-> <<>>, price_db |-> <<>>,
          shown |-> <<"ERROR: Could not read database file. Check JSON formatting.">>]
    ELSE [spec_db |-> db_file.value, price_db |-> price_file.value, shown |-> <<>>]

\* app.py 58: not spec_database or not price_database
Unusable(spec_db, price_db) == Len(spec_db) = 0 \/ DOMAIN price_db = {}

InitLoad ==
    /\ database_json \in SpecFiles
    /\ prices_json \in PriceFiles
    /\ errors = <<>>
    /\ spec_database = <<>>
    /\ price_database = <<>>
    /\ editable_prices = <<>>
    /\ manual_editable_prices = <<>>
    /\ manual_items = <<>>
    /\ full_report_text = None
    /\ NoOutput
    /\ call = None
    /\ ret = [done |-> FALSE]

\* app.py 58-59: the tables are unusable, the tabs are not built
AppCannotRun(loaded) ==
    /\ errors' = Append(loaded.shown, "Error: Database files could not be loaded. The app cannot run.")
    /\ outcome' = "none"
    /\ total_project_cost' = Zero
    /\ report_lines' = <<>> /\ results_list' = <<>> /\ map_data' = <<>>
    /\ UNCHANGED <<tables, full_report_text>>

\* app.py 60-270: the tabs are built and the uploaded report is estimated
AppRuns(loaded, text) ==
    /\ errors' = loaded.shown
    /\ spec_database' = loaded.spec_db
    /\ price_database' = loaded.price_db
    /\ editable_prices' = loaded.price_db
    /\ manual_editable_prices' = loaded.price_db
    /\ full_report_text' = Some(text)
    /\ ShowApp(BatchApp(loaded.spec_db, text, loaded.price_db))

\* app.py 21-270: the application is started and a report is offered to it
AppScript(loaded, text) ==
    /\ program = "none"
    /\ program' = "app"
    /\ IF Unusable(loaded.spec_db, loaded.price_db)
       THEN AppCannotRun(loaded)
       ELSE AppRuns(loaded, text)
    /\ UNCHANGED <<manual_items, call, ret, database_json, prices_json>>

\* main.py 17-19: a file is absent, the message is printed and the program
\* exits; a file that is not JSON raises json.JSONDecodeError, which nothing
\* catches.  Either way cost_report.txt is never opened
MainStops(fault) ==
    /\ errors' = IF fault = "missing" THEN <<"ERROR: Could not find database file.">>
                 ELSE <<"json.decoder.JSONDecodeError">>
    /\ outcome' = IF fault = "missing" THEN "none" ELSE "error"
    /\ total_project_cost' = Zero
    /\ report_lines' = <<>> /\ results_list' = <<>> /\ map_data' = <<>>
    /\ UNCHANGED <<tables, full_report_text>>

\* main.py 21-180 once both tables are loaded
MainRuns(spec_db, price_db, text) ==
    /\ errors' = <<>>
    /\ price_database' = price_db
    /\ editable_prices' = price_db
    /\ manual_editable_prices' = price_db
    /\ full_report_text' = Some(text)
    /\ WriteMain(BatchMain(spec_db, text, price_db))

\* main.py 9-180: the command-line estimator is started
MainScript(fault, text) ==
    /\ program = "none"
    /\ program' = "main"
    /\ IF fault # "none"
       THEN MainStops(fault)
       ELSE MainRuns(database_json.value, prices_json.value, text)
    /\ UNCHANGED <<manual_items, call, ret, database_json, prices_json>>

StartApp == \E text \in Texts : AppScript(load_data(database_json, prices_json), text)
StartMain == \E text \in Texts : MainScript(FirstFault(database_json, prices_json), text)

NextLoad == StartApp \/ StartMain

SpecLoad == InitLoad /\ [][NextLoad]_vars

\* ---- the two helpers of the GIS map, each called on bounded arguments
Pending == [done |-> FALSE]
Returned(v) == [done |-> TRUE, v |-> v]

ChainageAlphabet == {"0", "4", "+", "-", " ", "a", "_"}

RECURSIVE StringsUpTo(_)
StringsUpTo(k) ==
    IF k = 0 THEN {<<>>}
    ELSE LET shorter == StringsUpTo(k - 1)
         IN  shorter \cup {Append(t, c) : t \in shorter, c \in ChainageAlphabet}

ChainageCalls ==
    {[fn |-> "parse_chainage", ch_str |-> c] :
        c \in {None} \cup {Some(t) : t \in StringsUpTo(MaxChLen)}}

OptionalMetres == {None} \cup {Some(k) : k \in 0..MaxCh}
\* coordinates are floats; 0, 1 and 10 are floats of every precision from 3 bits
CoordValues == {RatInt(0), RatInt(1), RatInt(10)}
Coords == CoordValues \X CoordValues

GpsCalls ==
    [fn : {"interpolate_gps"}, chainage_m : OptionalMetres, start_ch : OptionalMetres,
     end_ch : OptionalMetres, start_gps : Coords, end_gps : Coords]

InitHelpers ==
    /\ spec_database = SpecTableA
    /\ price_database = PricesFull
    /\ editable_prices = price_database
    /\ manual_editable_prices = price_database
    /\ manual_items = <<>>
    /\ full_report_text = None
    /\ NoOutput
    /\ call \in {Some(c) : c \in ChainageCalls \cup GpsCalls}
    /\ ret = Pending
    /\ FilesRead

CallParseChainage ==
    /\ call.v.fn = "parse_chainage"
    /\ ret = Pending
    /\ ret' = Returned(parse_chainage(call.v.ch_str))
    /\ UNCHANGED <<files, tables, manual_items, full_report_text, program, outcome,
                   total_project_cost, report_lines, results_list, map_data, call>>

CallInterpolateGps ==
    /\ call.v.fn = "interpolate_gps"
    /\ ret = Pending
    /\ ret' = Returned(interpolate_gps(call.v.chainage_m, call.v.start_ch, call.v.end_ch,
                                       call.v.start_gps, call.v.end_gps))
    /\ UNCHANGED <<files, tables, manual_items, full_report_text, program, outcome,
                   total_project_cost, report_lines, results_list, map_data, call>>

NextHelpers == CallParseChainage \/ CallInterpolateGps

SpecHelpers == InitHelpers /\ [][NextHelpers]_vars

\* ================================================================ properties
\* Vocabulary of the properties, stated on the inputs and on what a run shows.

\* key is a case-insensitive substring of text
InText(key, text) ==
    \E i \in 1..(Len(text) - Len(key) + 1) :
        \A k \in 1..Len(key) : LowerChar(text[i + k - 1]) = LowerChar(key[k])

\* number of places of text where key occurs, case-insensitively
OccurrenceCount(key, text) ==
    Cardinality({i \in 1..(Len(text) - Len(key) + 1) :
                    \A k \in 1..Len(key) : LowerChar(text[i + k - 1]) = LowerChar(key[k])})

BatchRun == program \in {"app", "main"}
BatchDone == BatchRun /\ outcome = "done"

\* the entries of the table found in the text, in table order
Found == SelectSeq(spec_database, LAMBDA e : InText(e.key, full_report_text.v))

\* the lines of one kind, and their positions, in report order
LinesOf(kind) == SelectSeq(report_lines, LAMBDA l : l.kind = kind)
PositionsOf(kind) ==
    SelectSeq([i \in 1..Len(report_lines) |-> i], LAMBDA i : report_lines[i].kind = kind)

RECURSIVE SumCost(_)
SumCost(lines) ==
    IF Len(lines) = 0 THEN Zero ELSE DecAdd(Head(lines).cost, SumCost(Tail(lines)))

\* the prices a run reads
RunPrices == IF program = "main" THEN price_database ELSE editable_prices

\* the material lines of the k-th evaluated intervention
Block(k) ==
    SubSeq(report_lines, PositionsOf("breakdown")[k] + 1, PositionsOf("total")[k] - 1)

\* the quantity the report shows for an intervention
HasQuantity(key) == \E i \in 1..Len(report_lines) :
                        report_lines[i].kind = "quantity" /\ report_lines[i].key = key
QuantityLine(key) ==
    report_lines[CHOOSE i \in 1..Len(report_lines) :
                    report_lines[i].kind = "quantity" /\ report_lines[i].key = key]

\* C1: in batch mode the running total is at every point the sum of the item
\* totals reported, and the grand total of a completed run is the sum of the
\* item totals of the interventions found in the text (one item total per
\* found intervention, in table order): an intervention that is not found
\* contributes nothing.
Thm_C1 ==
    /\ BatchRun => total_project_cost = SumCost(LinesOf("total"))
    /\ BatchDone =>
          /\ [i \in 1..Len(LinesOf("total")) |-> LinesOf("total")[i].key]
               = [i \in 1..Len(Found) |-> Found[i].key]
          /\ report_lines[Len(report_lines)].kind = "grand"
          /\ report_lines[Len(report_lines)].cost = total_project_cost

Witness_C1 ==
    /\ BatchDone
    /\ Len(LinesOf("total")) >= 2
    /\ Len(Found) < Len(spec_database)
    /\ \A i \in 1..Len(LinesOf("total")) : DecPos(LinesOf("total")[i].cost)

\* sum over the requirements whose name is priced of
\* requirement.quantity * quantity * unit_price
RECURSIVE SumKnown(_, _, _)
SumKnown(materials, quantity, prices) ==
    IF Len(materials) = 0 THEN Zero
    ELSE LET m == materials[Len(materials)]
             rest == SumKnown(SubSeq(materials, 1, Len(materials) - 1), quantity, prices)
         IN  IF m.name \in DOMAIN prices
             THEN DecAdd(rest, DecMul(DecMul(DecInt(m.quantity), quantity),
                                      DecInt(prices[m.name])))
             ELSE rest

\* C2: the item total of every intervention the PDF tab evaluates is the sum,
\* over the materials of its spec that the price table prices, of
\* requirement.quantity * quantity * unit_price, for the quantity the run derived.
Thm_C2 ==
    (program = "app" /\ outcome = "done") =>
        \A k \in 1..Len(Found) :
            LinesOf("total")[k].cost
              = SumKnown(Found[k].materials, LinesOf("quantity")[k].qty, editable_prices)

Witness_C2 ==
    /\ program = "app" /\ outcome = "done"
    /\ \E k \in 1..Len(Found) :
          /\ DecPos(LinesOf("total")[k].cost)
          /\ LinesOf("quantity")[k].qty # DecInt(1)
          /\ \E i \in 1..Len(Found[k].materials) : Found[k].materials[i].quantity > 1
          /\ \E i \in 1..Len(Found[k].materials) :
                Found[k].materials[i].name \notin DOMAIN editable_prices

\* the material list a program costs: main.py reads no per-sqm list
CostedMaterials(e) ==
    IF program = "main" /\ e.cat = PerSqm20mm THEN <<>> ELSE e.materials

\* the first area or depth number of the text is no decimal number
MalformedNumber(text_lower) ==
    \/ AreaSearch(text_lower) # None /\ ~ParseFloat(AreaSearch(text_lower).v).ok
    \/ DepthSearch(text_lower) # None /\ ~ParseFloat(DepthSearch(text_lower).v).ok

Claim_C4 ==
    (program = "app" /\ outcome = "done") => Len(results_list) = Len(Found)

\* C5 (as claimed): whatever numeric text the report holds, a batch run
\* completes with a grand total and a report.
Claim_C5 ==
    BatchRun =>
        /\ outcome = "done"
        /\ report_lines[Len(report_lines)].kind = "grand"

\* ---- parse_chainage as documented
AllDigits(s) == Len(s) > 0 /\ \A i \in 1..Len(s) : s[i] \in Digits

\* '<km>+<m>' of two non-negative integers, a bare non-negative integer, or null
DocumentedChainage(ch_str) ==
    IF ch_str = None THEN None
    ELSE IF AllDigits(ch_str.v) THEN Some(DigitsVal(ch_str.v))
    ELSE IF \E p \in 1..Len(ch_str.v) :
                /\ ch_str.v[p] = "+"
                /\ AllDigits(SubSeq(ch_str.v, 1, p - 1))
                /\ AllDigits(SubSeq(ch_str.v, p + 1, Len(ch_str.v)))
         THEN LET p == CHOOSE q \in 1..Len(ch_str.v) :
                          /\ ch_str.v[q] = "+"
                          /\ AllDigits(SubSeq(ch_str.v, 1, q - 1))
                          /\ AllDigits(SubSeq(ch_str.v, q + 1, Len(ch_str.v)))
              IN  Some(DigitsVal(SubSeq(ch_str.v, 1, p - 1)) * 1000
                         + DigitsVal(SubSeq(ch_str.v, p + 1, Len(ch_str.v))))
    ELSE None

ParseChainageReturned == call.v.fn = "parse_chainage" /\ ret.done

\* C6 (as claimed): parse_chainage returns km*1000 + m for '<km>+<m>' of two
\* non-negative integers, the integer for a bare integer, and null for every
\* other input, with no partial parsing.
Claim_C6 ==
    ParseChainageReturned => ret.v = DocumentedChainage(call.v.ch_str)

\* the report shows, for every found intervention that satisfies which, the
\* quantity and unit that expected gives for its key
QuantitiesAre(which(_), expected(_)) ==
    \A k \in 1..Len(Found) :
        which(Found[k]) =>
            /\ HasQuantity(Found[k].key)
            /\ QuantityLine(Found[k].key).qty = expected(Found[k].key).quantity
            /\ QuantityLine(Found[k].key).name = expected(Found[k].key).unit

IsStudsPerMeter(e) == Lower(e.key) = KeyRoadStuds /\ e.cat = PerMeter

\* least n with 9 * n >= length
Ceil9(length) == CHOOSE n \in 0..length : 9 * n >= length /\ (n = 0 \/ 9 * (n - 1) < length)

\* 2 * ceil(|end - start| / 9) items for the first range of the text, else 1 item
DocumentedStuds(key) ==
    LET m == RangeSearch(Lower(full_report_text.v))
    IN  IF m = None THEN [quantity |-> DecInt(1), unit |-> "item"]
        ELSE [quantity |->
                DecInt(2 * Ceil9(Abs((m.v.end_km * 1000 + m.v.end_m)
                                     - (m.v.start_km * 1000 + m.v.start_m)))),
              unit |-> "item"]

\* C7: for road studs under a per-meter spec the quantity of a completed batch
\* run is 2 * ceil(|end_offset - start_offset| / 9) for the first chainage range
\* '<km>+<m> to <km>+<m>' of the text, each offset being km*1000 + m, and 1 when
\* the text has no such range; the unit is 'item' in both cases.
Thm_C7 ==
    BatchDone => QuantitiesAre(IsStudsPerMeter, DocumentedStuds)

Witness_C7 ==
    /\ BatchDone
    /\ \E k \in 1..Len(Found) :
          /\ IsStudsPerMeter(Found[k])
          /\ RangeSearch(Lower(full_report_text.v)) # None
          /\ QuantityLine(Found[k].key).qty = DecInt(24)

IsPerCubicMeter(e) == e.cat = PerCubicMeter

\* area_sqm * (depth_mm / 1000) for a pothole whose text has both numbers, else 0
DocumentedVolume(key) ==
    LET area == AreaSearch(Lower(full_report_text.v))
        depth == DepthSearch(Lower(full_report_text.v))
    IN  IF /\ Lower(key) = KeyPothole
           /\ area # None /\ depth # None
           /\ ParseFloat(area.v).ok /\ ParseFloat(depth.v).ok
        THEN [quantity |-> DecDiv1000(DecMul(ParseFloat(area.v).v, ParseFloat(depth.v).v)),
              unit |-> "m^3"]
        ELSE [quantity |-> Zero, unit |-> "m^3"]

\* C8 (as claimed): for a per-cubic-meter spec a batch run derives the quantity
\* area_sqm * (depth_mm / 1000) when the key is 'pothole' and the text has both
\* an 'area <number> sqm' and a '<number> mm depth' pattern, and 0 in every
\* other case.
Claim_C8 ==
    BatchRun => QuantitiesAre(IsPerCubicMeter, DocumentedVolume)

IsPerItem(e) == e.cat = PerItem

\* the number of occurrences of the key, and 1 when there is none
DocumentedCount(key) ==
    [quantity |-> DecInt(IF OccurrenceCount(key, full_report_text.v) = 0 THEN 1
                         ELSE OccurrenceCount(key, full_report_text.v)),
     unit |-> "item"]

\* C9 (as claimed): for a per-item spec the quantity of a completed batch run is
\* the number of case-insensitive occurrences of the key in the text, 1 when
\* there is none, hence at least 1.
Claim_C9 ==
    BatchDone => QuantitiesAre(IsPerItem, DocumentedCount)

InterpolateReturned ==
    /\ call.v.fn = "interpolate_gps" /\ ret.done
    /\ call.v.chainage_m # None /\ call.v.start_ch # None /\ call.v.end_ch # None

\* p lies on the segment from a to b
Between(x, a, b) ==
    \/ ~RatLess(x, a) /\ ~RatLess(b, x)
    \/ ~RatLess(x, b) /\ ~RatLess(a, x)
OnSegment(p, a, b) ==
    /\ Between(p[1], a[1], b[1])
    /\ Between(p[2], a[2], b[2])
    /\ RatMul(RatSub(p[1], a[1]), RatSub(b[2], a[2]))
         = RatMul(RatSub(p[2], a[2]), RatSub(b[1], a[1]))

\* C10 (as claimed, read for a range with range_start_m < range_end_m):
\* interpolate_gps returns start_coord exactly for an offset equal to or below
\* range_start_m, end_coord exactly for every offset >= range_end_m, and for
\* every offset a point of the segment between start_coord and end_coord.
Claim_C10 ==
    (InterpolateReturned /\ call.v.start_ch.v < call.v.end_ch.v) =>
        /\ call.v.chainage_m.v <= call.v.start_ch.v => ret.v = call.v.start_gps
        /\ call.v.chainage_m.v >= call.v.end_ch.v => ret.v = call.v.end_gps
        /\ OnSegment(ret.v, call.v.start_gps, call.v.end_gps)

InterpolateCallReturned == call.v.fn = "interpolate_gps" /\ ret.done

\* a null offset, a null range bound, or a range whose two bounds are equal
DegenerateOrMalformed ==
    \/ call.v.chainage_m = None \/ call.v.start_ch = None \/ call.v.end_ch = None
    \/ call.v.start_ch.v = call.v.end_ch.v

\* C11: interpolate_gps returns start_coord when range_end_m equals
\* range_start_m or when the offset or a range bound is null; the call returns
\* a coordinate pair and raises nothing.
Thm_C11 ==
    /\ InterpolateCallReturned => Len(ret.v) = 2
    /\ (InterpolateCallReturned /\ DegenerateOrMalformed) => ret.v = call.v.start_gps

Witness_C11 ==
    /\ InterpolateCallReturned
    /\ call.v.chainage_m # None /\ call.v.start_ch # None /\ call.v.end_ch # None
    /\ call.v.start_ch.v = call.v.end_ch.v
    /\ call.v.chainage_m.v > call.v.end_ch.v
    /\ call.v.start_gps # call.v.end_gps
    /\ ret.v = call.v.start_gps

AppDone == program = "app" /\ outcome = "done"

\* where the key starts in the text, case-insensitively
KeyStarts(key) ==
    {p \in 1..(Len(full_report_text.v) - Len(key) + 1) :
        \A k \in 1..Len(key) : LowerChar(full_report_text.v[p + k - 1]) = LowerChar(key[k])}

\* the (at most) 150 characters before position p, and their first '<km>+<m>'
WindowBefore(p) == SubSeq(full_report_text.v, Max(1, p - MapWindow), p - 1)
LabelBefore(p) == LabelSearch(WindowBefore(p))
LabelledStarts(key) == {p \in KeyStarts(key) : LabelBefore(p) # None}
Least(S) == CHOOSE x \in S : \A y \in S : x <= y

\* C12 (as claimed): the chainage label of an intervention is a '<km>+<m>'
\* pattern within the 150 characters before the first occurrence of its key,
\* and there is no label when that window holds none.
Claim_C12 ==
    AppDone =>
        \A i \in 1..Len(map_data) :
            /\ LabelBefore(Least(KeyStarts(map_data[i].key))) # None
            /\ map_data[i].label = LabelBefore(Least(KeyStarts(map_data[i].key))).v

\* C12 (amended): the chainage label of an intervention is the first '<km>+<m>'
\* pattern within the 150 characters before the first occurrence of its key
\* that has such a pattern in the 150 characters before it; an intervention
\* none of whose occurrences has one has no label.  The label is what the map
\* point of the intervention shows.
Thm_C12 ==
    AppDone =>
        /\ \A i \in 1..Len(map_data) :
              /\ LabelledStarts(map_data[i].key) # {}
              /\ map_data[i].label = LabelBefore(Least(LabelledStarts(map_data[i].key))).v
        /\ \A k \in 1..Len(Found) :
              LabelledStarts(Found[k].key) = {} =>
                  \A i \in 1..Len(map_data) : map_data[i].key # Found[k].key
        /\ \A k \in 1..Len(Found) :
              (/\ LabelledStarts(Found[k].key) # {}
               /\ \E j \in 1..Len(results_list) :
                     results_list[j].Intervention = Found[k].key
               /\ parse_chainage(LabelBefore(Least(LabelledStarts(Found[k].key))))
                     \notin {None, Some(0)})
              => \E i \in 1..Len(map_data) :
                     /\ map_data[i].key = Found[k].key
                     /\ map_data[i].label
                          = LabelBefore(Least(LabelledStarts(Found[k].key))).v

Witness_C12 ==
    /\ AppDone
    /\ \E i \in 1..Len(map_data) :
          /\ LabelBefore(Least(KeyStarts(map_data[i].key))) = None
          /\ map_data[i].label = <<"4", "+", "2", "0", "0">>

ManualDone == program = "manual" /\ outcome = "done"

\* C13: a manual calculation extracts no quantity: for every entry of the list,
\* in list order, the quantity shown is the entry's own and the item total is
\* the cost aggregation of the batch estimator applied to that quantity, the
\* spec of the entry's key and the price inputs of the manual tab; the grand
\* total is the sum of the item totals.
Thm_C13 ==
    ManualDone =>
        /\ Len(LinesOf("total")) = Len(manual_items)
        /\ Len(LinesOf("quantity")) = Len(manual_items)
        /\ \A i \in 1..Len(manual_items) :
              /\ LinesOf("total")[i].key = manual_items[i].key
              /\ LinesOf("quantity")[i].qty = manual_items[i].quantity
              /\ LinesOf("total")[i].cost
                   = SumKnown(Lookup(spec_database, manual_items[i].key).materials,
                              manual_items[i].quantity, manual_editable_prices)
              /\ LinesOf("total")[i].cost
                   = ComputeCost(manual_items[i].key,
                                 MaterialsApp(Lookup(spec_database, manual_items[i].key)),
                                 manual_items[i].quantity, manual_editable_prices).total
        /\ total_project_cost = SumCost(LinesOf("total"))
        /\ report_lines[Len(report_lines)].kind = "grand"
        /\ report_lines[Len(report_lines)].cost = total_project_cost

Witness_C13 ==
    /\ ManualDone
    /\ Len(manual_items) = 2
    /\ manual_items[1].key # manual_items[2].key
    /\ manual_items[1].quantity = DecInt(2)
    /\ manual_items[2].quantity.e = 2
    /\ manual_editable_prices # price_database
    /\ DecPos(LinesOf("total")[1].cost) /\ DecPos(LinesOf("total")[2].cost)

\* one entry was appended and the earlier entries are as they were
AppendedOne ==
    /\ Len(manual_items') = Len(manual_items) + 1
    /\ SubSeq(manual_items', 1, Len(manual_items)) = manual_items

ListStep ==
    /\ manual_items' # manual_items => (AppendedOne \/ manual_items' = <<>>)
    /\ program' \in {"manual", "app"} => manual_items' = manual_items
    /\ manual_editable_prices' # manual_editable_prices => manual_items' = manual_items

\* C14: every step of a session leaves the manual list as it was, appends
\* exactly one entry at its end, or empties it; a calculation, a price
\* override and a batch run leave it as it was.
Thm_C14 == [][ListStep]_vars

Witness_C14 ==
    /\ Len(manual_items) = 2
    /\ manual_items[1] # manual_items[2]
    /\ program = "app" /\ outcome = "done"
    /\ manual_editable_prices # price_database

\* C15 (as claimed): the specification table is read only, so after a batch
\* run every material list, per-unit quantity and category is as loaded.
Claim_C15 ==
    BatchRun => spec_database \in SpecTables

\* the report shows an item total for an intervention
HasTotal(key) == \E i \in 1..Len(report_lines) :
                     report_lines[i].kind = "total" /\ report_lines[i].key = key

\* C16 (as claimed): an intervention gets a quantity and an item total in a
\* batch run exactly when its key is a case-insensitive substring of the
\* text, and the result list holds no intervention that is not in the text.
Claim_C16 ==
    BatchRun =>
        /\ \A i \in 1..Len(spec_database) :
              InText(spec_database[i].key, full_report_text.v)
                  <=> (HasQuantity(spec_database[i].key) /\ HasTotal(spec_database[i].key))
        /\ \A r \in 1..Len(results_list) : InText(results_list[r].Intervention, full_report_text.v)

\* a table file is absent or does not hold JSON
ConfigFault == database_json.state # "json" \/ prices_json.state # "json"

\* C17: when database.json or prices.json is absent or is not JSON, the run
\* shows an error and estimates nothing: it reads no report, writes no report
\* line, no result, no map point and no total.  When both files are read no
\* error is shown.
Thm_C17 ==
    /\ (ConfigFault /\ program # "none") =>
          /\ errors # <<>>
          /\ outcome # "done"
          /\ full_report_text = None
          /\ report_lines = <<>>
          /\ results_list = <<>>
          /\ map_data = <<>>
          /\ total_project_cost = Zero
          /\ Len(spec_database) = 0
    /\ (~ConfigFault /\ program # "none") => errors = <<>>

\* the application was started with a price file that is not JSON
Witness_C17 ==
    /\ program = "app"
    /\ database_json.state = "json"
    /\ prices_json.state = "malformed"
    /\ Len(errors) = 2

\* the quantity and item-total lines of a report, in order
Figures(report) == SelectSeq(report, LAMBDA l : l.kind \in {"quantity", "total", "grand"})

\* what main.py wrote agrees with the estimate app of the PDF tab
AgreesWith(app) ==
    /\ (outcome = "error") <=> (app.status = "error")
    /\ outcome = "done" =>
          /\ Figures(report_lines) = Figures(app.report)
          /\ total_project_cost = app.total

\* C18 (as claimed): on the same text, specification table and price table
\* main.py derives the quantities, units, item totals and grand total that the
\* PDF tab of app.py derives with its prices untouched.
Claim_C18 ==
    program = "main" =>
        AgreesWith(BatchApp(database_json.value, full_report_text.v, price_database))

\* the map holds a point for an intervention; its item total is positive
HasMapPoint(key) == \E m \in 1..Len(map_data) : map_data[m].key = key
PositiveTotal(key) == \E i \in 1..Len(report_lines) :
                          /\ report_lines[i].kind = "total"
                          /\ report_lines[i].key = key
                          /\ DecPos(report_lines[i].cost)
InResults(key) == \E r \in 1..Len(results_list) : results_list[r].Intervention = key

\* C19 (as claimed): every map point belongs to an intervention of the result
\* list, and an intervention found in the text has a map point exactly when
\* its item total is positive and a chainage label was found for it, a label
\* of offset 0 included.
Claim_C19 ==
    AppDone =>
        /\ \A m \in 1..Len(map_data) : InResults(map_data[m].key)
        /\ \A i \in 1..Len(spec_database) :
              InText(spec_database[i].key, full_report_text.v) =>
                  (HasMapPoint(spec_database[i].key)
                      <=> (/\ PositiveTotal(spec_database[i].key)
                           /\ LabelledStarts(spec_database[i].key) # {}))

\* the unit documented for a category
DocumentedUnit(cat) ==
    IF cat = PerMeter THEN <<"m", "e", "t", "e", "r">>
    ELSE IF cat = PerCubicMeter THEN <<"m", "^", "3">>
    ELSE IF cat = PerSqm20mm THEN <<"s", "q", "m">>
    ELSE <<"i", "t", "e", "m">>

\* the decimal q is at least 0.01
AtLeastHundredth(q) == q.n * Pow10(2) >= Pow10(q.e)

\* the entry names an intervention of the table and carries its unit
WellFormedEntry(item) ==
    /\ \E j \in 1..Len(spec_database) :
          /\ spec_database[j].key = item.key
          /\ item.unit = DocumentedUnit(spec_database[j].cat)
    /\ AtLeastHundredth(item.quantity)

\* C20: whatever is added, cleared and calculated, every entry of the manual
\* list names an intervention of the specification table, has a quantity of
\* at least 0.01 and carries the unit of that intervention's category; a
\* calculation therefore finds the spec of every entry and reports one item
\* total per entry.
Thm_C20 ==
    /\ \A i \in 1..Len(manual_items) : WellFormedEntry(manual_items[i])
    /\ ManualDone => Len(LinesOf("total")) = Len(manual_items)

\* a calculated list that holds the smallest quantity of an area intervention
Witness_C20 ==
    /\ ManualDone
    /\ \E i \in 1..Len(manual_items) :
          /\ manual_items[i].unit = <<"s", "q", "m">>
          /\ manual_items[i].quantity = [n |-> 1, e |-> 2]

====
